---------------------------- MODULE Spec2Model ----------------------------
(***************************************************************************)
(* GreenHerbs / GreenLeaf traceability: the session state of the two       *)
(* Streamlit entry points (src/app.py and src/api/app.py) and the handlers *)
(* that mutate it.  One script run renders one page; a form submission on  *)
(* that page is one atomic step.                                           *)
(*                                                                         *)
(* Units.  The wall clock (datetime.now()) counts ticks, the smallest      *)
(* interval two script runs can be apart; TicksPerSecond of them make a    *)
(* second.  One script run reads the clock once.  Coordinates are          *)
(* hundredths of a degree.  Moisture percentage and lead ppm are           *)
(* hundredths (12.0 % = 1200, 0.5 ppm = 50).                               *)
(* Distances are kilometres rounded up, so that for the integer threshold  *)
(* distance <= 200 holds of the rounded value exactly when it holds of the *)
(* real one.                                                               *)
(***************************************************************************)
EXTENDS Integers, Sequences, FiniteSets, TLC

VARIABLES
    app,          \* which entry point runs this session
    now,          \* the wall clock, in ticks
    blockchain,   \* st.session_state.blockchain
    batches,      \* st.session_state.batches
    recalls,      \* st.session_state.recalls
    screen        \* what the last script run rendered

vars == <<app, now, blockchain, batches, recalls, screen>>

(***************************************************************************)
(* Bounds of the model.                                                    *)
(***************************************************************************)
MaxClock == 4
TicksPerSecond == 3
MaxBlocks == 3
MaxHealthSteps == 6
MaxHealthTests == 4
MaxQualitySteps == 2
MaxQualityTests == 3

(***************************************************************************)
(* Helpers for Python values.                                              *)
(***************************************************************************)
EmptyDict == [k \in {} |-> 0]

\* dict.get(key, default)
Get(d, key, default) == IF key \in DOMAIN d THEN d[key] ELSE default

\* str.lower() on the step / test names the pages offer
Lower(s) ==
    CASE s = "Drying" -> "drying"
      [] s = "Cleaning" -> "cleaning"
      [] s = "Grinding" -> "grinding"
      [] s = "Powdering" -> "powdering"
      [] s = "Packaging" -> "packaging"
      [] s = "Moisture Content" -> "moisture content"
      [] s = "Microbial Load" -> "microbial load"
      [] s = "Heavy Metals" -> "heavy metals"

Min(a, b) == IF a <= b THEN a ELSE b

SeqsUpTo(S, n) == UNION {[1..k -> S] : k \in 0..n}

(***************************************************************************)
(* Entry points.                                                           *)
(***************************************************************************)
MainApp == "src/app.py"
ApiApp == "src/api/app.py"
Apps == {MainApp, ApiApp}

(***************************************************************************)
(* Geo-fencing (src/app.py only).                                          *)
(***************************************************************************)
ALLOWED_ZONES ==
    [Ashwagandha |-> <<2447, 7513>>,
     Tulsi |-> <<2758, 7770>>,
     Brahmi |-> <<949, 7633>>,
     Neem |-> <<2629, 7302>>]

MAX_DISTANCE_KM == 200

Species == DOMAIN ALLOWED_ZONES

\* The coordinates submitted in this model.
Delhi == <<2861, 7720>>        \* the default of the api form
NorthNear == <<2938, 7770>>    \* 199.49 km north of the Tulsi zone
NorthFar == <<2939, 7770>>     \* 200.60 km north of the Tulsi zone
Locations == {Delhi, NorthNear, NorthFar}

\* geopy.distance.geodesic(p, q).km on the WGS-84 ellipsoid, rounded up to a
\* whole kilometre, tabulated for the coordinates above.
geodesic(p, q) ==
    CASE p = q -> 0
      [] p = Delhi /\ q = ALLOWED_ZONES.Ashwagandha -> 503
      [] p = Delhi /\ q = ALLOWED_ZONES.Tulsi -> 125
      [] p = Delhi /\ q = ALLOWED_ZONES.Brahmi -> 2119
      [] p = Delhi /\ q = ALLOWED_ZONES.Neem -> 487
      [] p = NorthNear /\ q = ALLOWED_ZONES.Ashwagandha -> 601
      [] p = NorthNear /\ q = ALLOWED_ZONES.Tulsi -> 200
      [] p = NorthNear /\ q = ALLOWED_ZONES.Brahmi -> 2207
      [] p = NorthNear /\ q = ALLOWED_ZONES.Neem -> 575
      [] p = NorthFar /\ q = ALLOWED_ZONES.Ashwagandha -> 602
      [] p = NorthFar /\ q = ALLOWED_ZONES.Tulsi -> 201
      [] p = NorthFar /\ q = ALLOWED_ZONES.Brahmi -> 2208
      [] p = NorthFar /\ q = ALLOWED_ZONES.Neem -> 575

\* is_within_allowed(lat, lon, species) -> (approved, distance)
is_within_allowed(loc, species) ==
    LET distance == geodesic(loc, ALLOWED_ZONES[species])
    IN  <<distance <= MAX_DISTANCE_KM, distance>>

(***************************************************************************)
(* The ledger.                                                             *)
(***************************************************************************)
\* Faults of add_block: the index taken before the append is counted, and
\* the block put in front of the chain.
add_block_index_from_zero(data) ==
    Append(blockchain,
           [index |-> Len(blockchain), timestamp |-> now, data |-> data])

add_block_in_front(data) ==
    <<[index |-> Len(blockchain) + 1, timestamp |-> now, data |-> data]>>
    \o blockchain

\* add_block(data): the blockchain after the append
add_block(data) ==
    Append(blockchain,
           [index |-> Len(blockchain) + 1, timestamp |-> now, data |-> data])

(***************************************************************************)
(* Batch ids.                                                              *)
(***************************************************************************)
\* species[:3].upper()
Prefix(species) ==
    CASE species = "Ashwagandha" -> "ASH"
      [] species = "Tulsi" -> "TUL"
      [] species = "Brahmi" -> "BRA"
      [] species = "Neem" -> "NEE"

\* strftime('%Y%m%d-%H%M%S'): the reading cut to its second
strftime(t) == t \div TicksPerSecond

\* f"{species[:3].upper()}-{datetime.datetime.now().strftime(...)}"
make_batch_id(species, t) == <<Prefix(species), strftime(t)>>

\* Fault of the insert: batches.setdefault(batch_id, record).
put_batch_setdefault(batch_id, record) ==
    [id \in DOMAIN batches \cup {batch_id} |->
        IF id \in DOMAIN batches THEN batches[id] ELSE record]

\* batches[batch_id] = record
put_batch(batch_id, record) ==
    [id \in DOMAIN batches \cup {batch_id} |->
        IF id = batch_id THEN record ELSE batches[id]]

(***************************************************************************)
(* What the forms can submit.  The number inputs are sampled at their      *)
(* thresholds and one step above.                                          *)
(***************************************************************************)
Collectors == {"", "Asha"}
Reasons == {"spoilage"}

\* render_processing: the details dict built for the selected step
DryingDetails(temperature) == [duration |-> 1, temperature |-> temperature]
GrindingDetails(speed) == [duration |-> 1, speed |-> speed, fineness |-> "Coarse"]
PowderingDetails == [mesh_size |-> "60"]
PackagingDetails == [material |-> "Plastic", seal |-> "Standard"]

StepChoices ==
    {<<"Drying", DryingDetails(t)>> : t \in {40, 41}}
    \cup {<<"Grinding", GrindingDetails(v)>> : v \in {3000, 3001}}
    \cup {<<"Cleaning", EmptyDict>>,
          <<"Powdering", PowderingDetails>>,
          <<"Packaging", PackagingDetails>>}

\* render_quality_testing: the details dict built for the selected test
TestChoices ==
    {<<"Moisture Content", [percentage |-> p]>> : p \in {1200, 1201}}
    \cup {<<"Microbial Load", [cfu |-> c]>> : c \in {500, 501}}
    \cup {<<"Heavy Metals", [lead_ppm |-> l]>> : l \in {50, 51}}

\* The submissions explored in a whole session.
SessionSpecies == {"Tulsi", "Neem"}
SessionSteps ==
    {<<"Drying", DryingDetails(40)>>, <<"Cleaning", EmptyDict>>}
SessionTests ==
    {<<"Heavy Metals", [lead_ppm |-> 50]>>}

(***************************************************************************)
(* Derived metrics (src/app.py only).                                      *)
(***************************************************************************)
\* Fault of calculate_health: the cap at 100 left out.
calculate_health_uncapped(batch) ==
    (Len(batch.processing) * 60 * 3 + Len(batch.testing) * 40 * 5) \div (5 * 3)

\* calculate_health(batch).  The code computes int(min(100, (steps/5)*60 +
\* (tests/3)*40)) in binary floating point; for every steps, tests in 0..39
\* that value equals the exact quotient below (all larger counts are capped
\* at 100 by min).
calculate_health(batch) ==
    LET steps == Len(batch.processing)
        tests == Len(batch.testing)
    IN  Min(100, (steps * 60 * 3 + tests * 40 * 5) \div (5 * 3))

\* Fault of a criterion: the latest entry of the kind is judged.
criterion_latest(entries, field, kind, key, default, limit) ==
    LET matching == SelectSeq(entries, LAMBDA e : Lower(e[field]) = kind)
    IN  IF matching # <<>>
           /\ Get(matching[Len(matching)].details, key, default) <= limit
        THEN 1 ELSE 0

\* One criterion of predict_quality: the entries of the kind, the first of
\* them against its limit.
criterion(entries, field, kind, key, default, limit) ==
    LET matching == SelectSeq(entries, LAMBDA e : Lower(e[field]) = kind)
    IN  IF matching # <<>> /\ Get(matching[1].details, key, default) <= limit
        THEN 1 ELSE 0

\* predict_quality(batch): round(criteria_passed / total_criteria * 100, 1).
\* total_criteria divides 100, so the rounded value is a whole number.
predict_quality(batch) ==
    LET total_criteria == 5
        criteria_passed ==
            criterion(batch.processing, "step", "drying", "temperature", 100, 40)
            + criterion(batch.processing, "step", "grinding", "speed", 5000, 3000)
            + criterion(batch.testing, "test", "moisture content", "percentage", 10000, 1200)
            + criterion(batch.testing, "test", "microbial load", "cfu", 100000, 500)
            + criterion(batch.testing, "test", "heavy metals", "lead_ppm", 1000, 50)
    IN  (criteria_passed * 100) \div total_criteria

(***************************************************************************)
(* Pages.  Each action is one script run with the given widget values.     *)
(***************************************************************************)
BatchIds == {make_batch_id(s, t) : s \in Species, t \in 0..MaxClock}

\* The script run ends; the next one reads a later clock.
run_ends == now < MaxClock /\ now' = now + 1

NoBatches(page) == [page |-> page, info |-> "No batches"]

\* "Add Collection" of src/app.py: the geofence verdict gates the insert.
collection_main(species, loc, collector) ==
    LET verdict == is_within_allowed(loc, species)
        is_approved == verdict[1]
        batch_id == make_batch_id(species, now)
    IN  /\ app = MainApp
        /\ IF is_approved
           THEN /\ Len(blockchain) < MaxBlocks
                /\ batches' = put_batch(batch_id,
                       [species |-> species, location |-> loc,
                        collector |-> collector, timestamp |-> now,
                        processing |-> <<>>, testing |-> <<>>])
                /\ blockchain' = add_block(
                       [action |-> "collection", batch_id |-> batch_id,
                        species |-> species])
                /\ screen' = [page |-> "Add Collection", approved |-> TRUE,
                              added |-> {batch_id}]
                /\ run_ends
           ELSE /\ UNCHANGED <<batches, blockchain, now>>
                /\ screen' = [page |-> "Add Collection", approved |-> FALSE,
                              added |-> {}]
        /\ UNCHANGED <<app, recalls>>

\* "Add Collection" of src/api/app.py: every submission is stored.
collection_api(species, loc, collector) ==
    LET batch_id == make_batch_id(species, now)
    IN  /\ app = ApiApp
        /\ Len(blockchain) < MaxBlocks
        /\ batches' = put_batch(batch_id,
               [species |-> species, location |-> loc,
                collector |-> collector, timestamp |-> now,
                processing |-> <<>>, testing |-> <<>>])
        /\ blockchain' = add_block(
               [action |-> "collection", batch_id |-> batch_id,
                species |-> species])
        /\ screen' = [page |-> "Add Collection", added |-> {batch_id}]
        /\ run_ends
        /\ UNCHANGED <<app, recalls>>

render_collection_form(species, loc, collector) ==
    \/ collection_main(species, loc, collector)
    \/ collection_api(species, loc, collector)

\* The batch a selectbox over list(batches.keys()) can hold.
selectable(batch_id) == batch_id \in DOMAIN batches

\* Fault of render_processing: the batches share one processing list, so
\* the step lands on every batch.
render_processing_shared_list(batch_id, step, details) ==
    /\ batches # EmptyDict
    /\ selectable(batch_id)
    /\ Len(blockchain) < MaxBlocks
    /\ batches' = [id \in DOMAIN batches |->
           [batches[id] EXCEPT !.processing =
               Append(@, [step |-> step, details |-> details,
                          timestamp |-> now])]]
    /\ blockchain' = add_block(
           [action |-> "processing", batch_id |-> batch_id,
            step |-> step, details |-> details])
    /\ screen' = [page |-> "Processing", added |-> {<<step, batch_id>>}]
    /\ run_ends
    /\ UNCHANGED <<app, recalls>>

render_processing(batch_id, step, details) ==
    /\ batches # EmptyDict
    /\ selectable(batch_id)
    /\ Len(blockchain) < MaxBlocks
    /\ batches' = [batches EXCEPT ![batch_id].processing =
           Append(@, [step |-> step, details |-> details,
                      timestamp |-> now])]
    /\ blockchain' = add_block(
           [action |-> "processing", batch_id |-> batch_id,
            step |-> step, details |-> details])
    /\ screen' = [page |-> "Processing", added |-> {<<step, batch_id>>}]
    /\ run_ends
    /\ UNCHANGED <<app, recalls>>

render_quality_testing(batch_id, test, details) ==
    /\ batches # EmptyDict
    /\ selectable(batch_id)
    /\ Len(blockchain) < MaxBlocks
    /\ batches' = [batches EXCEPT ![batch_id].testing =
           Append(@, [test |-> test, details |-> details,
                      timestamp |-> now])]
    /\ blockchain' = add_block(
           [action |-> "testing", batch_id |-> batch_id,
            test |-> test, details |-> details])
    /\ screen' = [page |-> "Quality Testing", added |-> {<<test, batch_id>>}]
    /\ run_ends
    /\ UNCHANGED <<app, recalls>>

\* Faults of render_recall: the recall is not logged; a second recall lifts
\* the first; the id is not checked against the store.
render_recall_unlogged(batch_id, reason) ==
    /\ batches # EmptyDict
    /\ selectable(batch_id)
    /\ Len(blockchain) < MaxBlocks
    /\ recalls' = recalls \cup {batch_id}
    /\ screen' = [page |-> "Recall Product", recalled |-> {batch_id}]
    /\ run_ends
    /\ UNCHANGED <<app, batches, blockchain>>

render_recall_toggle(batch_id, reason) ==
    /\ batches # EmptyDict
    /\ selectable(batch_id)
    /\ Len(blockchain) < MaxBlocks
    /\ recalls' = IF batch_id \in recalls THEN recalls \ {batch_id}
                  ELSE recalls \cup {batch_id}
    /\ blockchain' = add_block(
           [action |-> "recall", batch_id |-> batch_id,
            reason |-> reason])
    /\ screen' = [page |-> "Recall Product", recalled |-> {batch_id}]
    /\ run_ends
    /\ UNCHANGED <<app, batches>>

render_recall_unchecked(batch_id, reason) ==
    /\ batches # EmptyDict
    /\ Len(blockchain) < MaxBlocks
    /\ recalls' = recalls \cup {batch_id}
    /\ blockchain' = add_block(
           [action |-> "recall", batch_id |-> batch_id,
            reason |-> reason])
    /\ screen' = [page |-> "Recall Product", recalled |-> {batch_id}]
    /\ run_ends
    /\ UNCHANGED <<app, batches>>

render_recall(batch_id, reason) ==
    /\ batches # EmptyDict
    /\ selectable(batch_id)
    /\ Len(blockchain) < MaxBlocks
    /\ recalls' = recalls \cup {batch_id}
    /\ blockchain' = add_block(
           [action |-> "recall", batch_id |-> batch_id,
            reason |-> reason])
    /\ screen' = [page |-> "Recall Product", recalled |-> {batch_id}]
    /\ run_ends
    /\ UNCHANGED <<app, batches>>

\* Processing, Quality Testing, Recall Product and Journey with an empty
\* store: the page reports it and returns before any widget is drawn.
render_without_batches(page) ==
    /\ batches = EmptyDict
    /\ screen' = NoBatches(page)
    /\ UNCHANGED <<app, now, blockchain, batches, recalls>>

render_journey(batch_id) ==
    /\ batches # EmptyDict
    /\ selectable(batch_id)
    /\ LET batch == batches[batch_id]
       IN  screen' =
             IF app = MainApp
             THEN [page |-> "Journey", batch_id |-> batch_id,
                   species |-> batch.species,
                   health_score |-> calculate_health(batch),
                   predicted_quality |-> predict_quality(batch),
                   recalled |-> batch_id \in recalls,
                   processing |-> batch.processing, testing |-> batch.testing]
             ELSE [page |-> "Journey", batch_id |-> batch_id,
                   species |-> batch.species,
                   recalled |-> batch_id \in recalls,
                   processing |-> batch.processing, testing |-> batch.testing]
    /\ UNCHANGED <<app, now, blockchain, batches, recalls>>

\* The status filters tried on the dashboard of src/app.py.
StatusFilters == {{"Active", "Recalled"}, {"Recalled"}}

\* Dashboard of src/app.py: one row per batch that passes both filters.  The
\* rows are kept as a set; the page lists them in the store's key order.
dashboard_main(species_filter, status_filter) ==
    LET status(batch_id) ==
            IF batch_id \in recalls THEN "Recalled" ELSE "Active"
        summary ==
            {[batch_id |-> batch_id,
              species |-> batches[batch_id].species,
              steps_completed |-> Len(batches[batch_id].processing),
              tests_done |-> Len(batches[batch_id].testing),
              status |-> status(batch_id)] :
                batch_id \in {id \in DOMAIN batches :
                    /\ batches[id].species \in species_filter
                    /\ status(id) \in status_filter}}
    IN  /\ app = MainApp
        /\ batches # EmptyDict
        /\ screen' =
             IF summary = {}
             THEN [page |-> "Dashboard", species_filter |-> species_filter,
                   status_filter |-> status_filter,
                   info |-> "No batches match filter"]
             ELSE [page |-> "Dashboard", species_filter |-> species_filter,
                   status_filter |-> status_filter, summary |-> summary]
        /\ UNCHANGED <<app, now, blockchain, batches, recalls>>

\* Dashboard of src/api/app.py: one card per batch, unfiltered.
dashboard_api ==
    /\ app = ApiApp
    /\ batches # EmptyDict
    /\ screen' =
         [page |-> "Dashboard",
          summary |->
            {[batch_id |-> batch_id,
              species |-> batches[batch_id].species,
              recalled |-> batch_id \in recalls,
              collector |-> batches[batch_id].collector,
              location |-> batches[batch_id].location,
              timestamp |-> batches[batch_id].timestamp,
              steps |-> Len(batches[batch_id].processing),
              tests |-> Len(batches[batch_id].testing)] :
                batch_id \in DOMAIN batches}]
    /\ UNCHANGED <<app, now, blockchain, batches, recalls>>

render_dashboard(species_filter, status_filter) ==
    \/ dashboard_main(species_filter, status_filter)
    \/ dashboard_api

\* Fault of the explorer: every view is itself logged as a block.
render_blockchain_explorer_logged ==
    /\ Len(blockchain) < MaxBlocks
    /\ blockchain' = add_block([action |-> "view", batch_id |-> <<"", 0>>])
    /\ screen' = [page |-> "Blockchain Explorer", blocks |-> blockchain']
    /\ UNCHANGED <<app, now, batches, recalls>>

render_blockchain_explorer ==
    /\ screen' =
         IF blockchain = <<>>
         THEN [page |-> "Blockchain Explorer", info |-> "No blocks yet."]
         ELSE [page |-> "Blockchain Explorer", blocks |-> blockchain]
    /\ UNCHANGED <<app, now, blockchain, batches, recalls>>

\* Time passes between script runs.
Tick ==
    /\ now < MaxClock
    /\ now' = now + 1
    /\ UNCHANGED <<app, blockchain, batches, recalls, screen>>

(***************************************************************************)
(* A whole session of either entry point.                                  *)
(***************************************************************************)
Init ==
    /\ app \in Apps
    /\ now = 0
    /\ blockchain = <<>>
    /\ batches = EmptyDict
    /\ recalls = {}
    /\ screen = [page |-> "start"]

Next ==
    \/ \E species \in SessionSpecies, loc \in Locations, collector \in Collectors :
            render_collection_form(species, loc, collector)
    \/ \E batch_id \in BatchIds, choice \in SessionSteps :
            render_processing(batch_id, choice[1], choice[2])
    \/ \E batch_id \in BatchIds, choice \in SessionTests :
            render_quality_testing(batch_id, choice[1], choice[2])
    \/ \E batch_id \in BatchIds, reason \in Reasons :
            render_recall(batch_id, reason)
    \/ \E page \in {"Dashboard", "Processing", "Quality Testing",
                    "Recall Product", "Journey"} :
            render_without_batches(page)
    \/ \E batch_id \in BatchIds : render_journey(batch_id)
    \/ \E status_filter \in StatusFilters : render_dashboard(Species, status_filter)
    \/ render_blockchain_explorer
    \/ Tick

Spec == Init /\ [][Next]_vars

(***************************************************************************)
(* The derived metrics on their own: a session that collected one batch    *)
(* and filed the drawn steps and results, then opens its Journey page.     *)
(***************************************************************************)
HealthSteps == {<<"Drying", DryingDetails(40)>>, <<"Cleaning", EmptyDict>>}
HealthTests ==
    {<<"Moisture Content", [percentage |-> 1201]>>,
     <<"Heavy Metals", [lead_ppm |-> 50]>>}
QualitySteps ==
    {c \in StepChoices : c[1] \in {"Drying", "Grinding", "Cleaning"}}

step_entry(choice, t) == [step |-> choice[1], details |-> choice[2], timestamp |-> t]
test_entry(choice, t) == [test |-> choice[1], details |-> choice[2], timestamp |-> t]

\* The ledger of the session that filed these steps, then these results,
\* one script run per tick.
filed_ledger(batch_id, species, steps, tests) ==
    [k \in 1..(1 + Len(steps) + Len(tests)) |->
        [index |-> k, timestamp |-> k - 1,
         data |->
            IF k = 1
            THEN [action |-> "collection", batch_id |-> batch_id,
                  species |-> species]
            ELSE IF k <= 1 + Len(steps)
            THEN [action |-> "processing", batch_id |-> batch_id,
                  step |-> steps[k - 1][1], details |-> steps[k - 1][2]]
            ELSE [action |-> "testing", batch_id |-> batch_id,
                  test |-> tests[k - 1 - Len(steps)][1],
                  details |-> tests[k - 1 - Len(steps)][2]]]]

\* Long histories of few kinds (the counts matter), and short histories of
\* every measured kind at and above its limit (the contents matter).
MetricInputs ==
    (SeqsUpTo(HealthSteps, MaxHealthSteps) \X SeqsUpTo(HealthTests, MaxHealthTests))
    \cup (SeqsUpTo(QualitySteps, MaxQualitySteps) \X SeqsUpTo(TestChoices, MaxQualityTests))

InitMetrics ==
    \E input \in MetricInputs :
      LET steps == input[1]
          tests == input[2]
      IN
        /\ app = MainApp
        /\ now = 1 + Len(steps) + Len(tests)
        /\ batches = [id \in {make_batch_id("Tulsi", 0)} |->
              [species |-> "Tulsi", location |-> Delhi, collector |-> "Asha",
               timestamp |-> 0,
               processing |-> [i \in DOMAIN steps |-> step_entry(steps[i], i)],
               testing |-> [i \in DOMAIN tests |->
                              test_entry(tests[i], Len(steps) + i)]]]
        /\ blockchain = filed_ledger(make_batch_id("Tulsi", 0), "Tulsi", steps, tests)
        /\ recalls = {}
        /\ screen = [page |-> "start"]

NextMetrics == \E batch_id \in BatchIds : render_journey(batch_id)

SpecMetrics == InitMetrics /\ [][NextMetrics]_vars

(***************************************************************************)
(* A session on few batches that files every kind of step and result, at   *)
(* and above each limit.                                                   *)
(***************************************************************************)
NextAppends ==
    \/ render_collection_form("Tulsi", Delhi, "Asha")
    \/ \E batch_id \in BatchIds, choice \in StepChoices :
            render_processing(batch_id, choice[1], choice[2])
    \/ \E batch_id \in BatchIds, choice \in TestChoices :
            render_quality_testing(batch_id, choice[1], choice[2])
    \/ \E batch_id \in BatchIds : render_journey(batch_id)

SpecAppends == Init /\ [][NextAppends]_vars

(***************************************************************************)
(* Vocabulary of the properties.                                           *)
(***************************************************************************)
IsPrefix(s, t) == Len(s) <= Len(t) /\ SubSeq(t, 1, Len(s)) = s

\* The step appended exactly one block; that block's payload.
OneAppend == Len(blockchain') = Len(blockchain) + 1 /\ IsPrefix(blockchain, blockchain')
LastData == blockchain'[Len(blockchain')].data

StoresChanged == batches' # batches \/ recalls' # recalls
ChangedBatchIds ==
    {id \in DOMAIN batches' : id \notin DOMAIN batches \/ batches'[id] # batches[id]}

\* The payload d names the kind of change the step made and the batch it
\* made it to.
Describes(d) ==
    \/ /\ d.action = "collection"
       /\ ChangedBatchIds = {d.batch_id}
       /\ batches'[d.batch_id].species = d.species
       /\ recalls' = recalls
    \/ /\ d.action = "processing"
       /\ ChangedBatchIds = {d.batch_id}
       /\ d.batch_id \in DOMAIN batches
       /\ Len(batches'[d.batch_id].processing)
             = Len(batches[d.batch_id].processing) + 1
       /\ recalls' = recalls
    \/ /\ d.action = "testing"
       /\ ChangedBatchIds = {d.batch_id}
       /\ d.batch_id \in DOMAIN batches
       /\ Len(batches'[d.batch_id].testing)
             = Len(batches[d.batch_id].testing) + 1
       /\ recalls' = recalls
    \/ /\ d.action = "recall"
       /\ recalls' \ recalls = {d.batch_id}
       /\ batches' = batches

(***************************************************************************)
(* C1.  The ledger's indices are 1..N in append order: the k-th entry of   *)
(* the chain carries index k.                                              *)
(***************************************************************************)
C1_IndicesGapless == \A k \in 1..Len(blockchain) : blockchain[k].index = k

C1_Witness ==
    /\ Len(blockchain) >= 3
    /\ {blockchain[k].data.action : k \in 1..3} = {"collection", "processing", "recall"}

(***************************************************************************)
(* C2 as claimed.  Every step that changes the batch store or the recall   *)
(* set appends exactly one entry describing the change, and a step that    *)
(* changes neither appends nothing.                                        *)
(***************************************************************************)
C2_MutationIffAppend ==
    [][/\ StoresChanged => OneAppend /\ Describes(LastData)
       /\ ~StoresChanged => blockchain' = blockchain]_vars

(***************************************************************************)
(* C2 amended.  Every step that changes the batch store or the recall set  *)
(* appends exactly one entry describing the change; a step that changes    *)
(* neither appends nothing, except that a recall submitted for a batch     *)
(* already in the recall set appends one more "recall" entry for it.       *)
(***************************************************************************)
C2_MutationAppendsOnce ==
    [][/\ StoresChanged => OneAppend /\ Describes(LastData)
       /\ (~StoresChanged /\ blockchain' # blockchain) =>
             /\ OneAppend
             /\ LastData.action = "recall"
             /\ LastData.batch_id \in recalls]_vars

C2_Witness ==
    \E i, j \in 1..Len(blockchain) :
        /\ i < j
        /\ blockchain[i].data.action = "recall"
        /\ blockchain[j].data.action = "recall"
        /\ blockchain[i].data.batch_id = blockchain[j].data.batch_id

(***************************************************************************)
(* C3.  A batch is created once and then only appended to: every id in    *)
(* the store stays there with the same species, location and collector,    *)
(* and its processing and testing sequences only grow at the end.          *)
(***************************************************************************)
C3_CreatedOnceAppendOnly ==
    [][\A id \in DOMAIN batches :
         /\ id \in DOMAIN batches'
         /\ batches'[id].species = batches[id].species
         /\ batches'[id].location = batches[id].location
         /\ batches'[id].collector = batches[id].collector
         /\ IsPrefix(batches[id].processing, batches'[id].processing)
         /\ IsPrefix(batches[id].testing, batches'[id].testing)]_vars

(***************************************************************************)
(* C4.  Recall is terminal: a recall submission leaves its batch id in the *)
(* recall set, and no step of any kind takes an id out of the recall set.  *)
(***************************************************************************)
C4_RecallTerminal ==
    [][/\ recalls \subseteq recalls'
       /\ (OneAppend /\ LastData.action = "recall")
             => LastData.batch_id \in recalls']_vars

\* A recalled batch was collected again under the same id and is still
\* recalled.
C4_Witness ==
    \E i \in 1..Len(blockchain) :
        /\ i < Len(blockchain)
        /\ blockchain[i].data.action = "recall"
        /\ blockchain[Len(blockchain)].data.action = "collection"
        /\ blockchain[Len(blockchain)].data.batch_id = blockchain[i].data.batch_id
        /\ blockchain[i].data.batch_id \in recalls

(***************************************************************************)
(* C5.  No operation acts on a batch id that is not in the store: a        *)
(* processing, testing or recall entry is appended, and an id recalled,    *)
(* only for an id that was a key of the store before the step; with an     *)
(* empty store these pages change nothing.  Hence every recalled id and    *)
(* every batch_id in the ledger is a key of the store.                     *)
(***************************************************************************)
C5_OnlyStoredBatches ==
    /\ [](/\ recalls \subseteq DOMAIN batches
          /\ \A k \in 1..Len(blockchain) :
                blockchain[k].data.batch_id \in DOMAIN batches)
    /\ [][/\ (recalls' \ recalls) \subseteq DOMAIN batches
          /\ (OneAppend /\ LastData.action # "collection")
                => LastData.batch_id \in DOMAIN batches
          /\ (batches = EmptyDict /\ "info" \in DOMAIN screen')
                => UNCHANGED <<blockchain, batches, recalls>>]_vars

C5_Witness ==
    /\ screen = NoBatches("Recall Product")
    /\ batches = EmptyDict
    /\ recalls = {}
    /\ blockchain = <<>>

(***************************************************************************)
(* C6.  Collection is geofence-validated in both entry points: every       *)
(* stored batch was submitted from within 200 km (inclusive) of its        *)
(* species' reference zone, and a collection entry is appended only for    *)
(* such a submission.                                                      *)
(***************************************************************************)
C6_GeofenceGatesCollection ==
    \A id \in DOMAIN batches :
        geodesic(batches[id].location, ALLOWED_ZONES[batches[id].species]) <= 200

(***************************************************************************)
(* C7.  The health score shown for a batch with s steps and t results is   *)
(* min(100, (s/5)*60 + (t/3)*40) cut to an integer: it lies in 0..100, is  *)
(* fixed by s and t alone, and is 100 for (5,3), 0 for (0,0), 24 for (2,0).*)
(***************************************************************************)
C7_HealthScore ==
    (app = MainApp /\ screen.page = "Journey") =>
        LET s == Len(batches[screen.batch_id].processing)
            t == Len(batches[screen.batch_id].testing)
            h == screen.health_score
        IN  /\ h \in 0..100
            \* 3 * ((s/5)*60 + (t/3)*40) = 36 s + 40 t
            /\ IF 36 * s + 40 * t >= 300
               THEN h = 100
               ELSE 3 * h <= 36 * s + 40 * t /\ 36 * s + 40 * t < 3 * (h + 1)
            /\ (s = 5 /\ t = 3) => h = 100
            /\ (s = 0 /\ t = 0) => h = 0
            /\ (s = 2 /\ t = 0) => h = 24

C7_Witness ==
    /\ screen.page = "Journey"
    /\ Len(batches[screen.batch_id].processing) > 5
    /\ Len(batches[screen.batch_id].testing) > 3
    /\ screen.health_score = 100

(***************************************************************************)
(* C8.  The predicted quality shown is 20 times the number of criteria     *)
(* met, each judged on the first recorded entry of its kind and failed     *)
(* when there is none: Drying temperature <= 40, Grinding speed <= 3000,   *)
(* Moisture <= 12 %, Microbial CFU <= 500, lead <= 0.5 ppm.                *)
(***************************************************************************)
FirstOfKind(entries, field, kind) ==
    {i \in DOMAIN entries :
        /\ entries[i][field] = kind
        /\ \A j \in 1..(i - 1) : entries[j][field] # kind}

Met(entries, field, kind, key, limit) ==
    IF \E i \in FirstOfKind(entries, field, kind) : entries[i].details[key] <= limit
    THEN 1 ELSE 0

C8_PredictedQuality ==
    (app = MainApp /\ screen.page = "Journey") =>
        LET b == batches[screen.batch_id]
            met == Met(b.processing, "step", "Drying", "temperature", 40)
                   + Met(b.processing, "step", "Grinding", "speed", 3000)
                   + Met(b.testing, "test", "Moisture Content", "percentage", 1200)
                   + Met(b.testing, "test", "Microbial Load", "cfu", 500)
                   + Met(b.testing, "test", "Heavy Metals", "lead_ppm", 50)
        IN  /\ screen.predicted_quality = 20 * met
            /\ (b.processing = <<>> /\ b.testing = <<>>) => screen.predicted_quality = 0

\* Drying passed first and failed later, no grinding, all three tests pass.
C8_Witness ==
    /\ screen.page = "Journey"
    /\ LET b == batches[screen.batch_id]
       IN  /\ Len(b.processing) = 2
           /\ b.processing[1].step = "Drying" /\ b.processing[1].details.temperature = 40
           /\ b.processing[2].step = "Drying" /\ b.processing[2].details.temperature = 41
           /\ {b.testing[i].test : i \in DOMAIN b.testing}
                 = {"Moisture Content", "Microbial Load", "Heavy Metals"}
    /\ screen.predicted_quality = 80

(***************************************************************************)
(* C9.  Right after a successful collection submission of (species,        *)
(* location, collector), the store maps the generated id to a batch with   *)
(* exactly those three values and empty processing and testing sequences.  *)
(***************************************************************************)
C9_CreateThenGet ==
    [][\A species \in SessionSpecies, loc \in Locations, collector \in Collectors :
         (render_collection_form(species, loc, collector) /\ blockchain' # blockchain)
           => LET id == make_batch_id(species, now)
              IN  /\ id \in DOMAIN batches'
                  /\ batches'[id].species = species
                  /\ batches'[id].location = loc
                  /\ batches'[id].collector = collector
                  /\ batches'[id].processing = <<>>
                  /\ batches'[id].testing = <<>>]_vars

\* Collected, processed, and collected again under the same id.
C9_Witness ==
    /\ Len(blockchain) = 3
    /\ blockchain[1].data.action = "collection"
    /\ blockchain[2].data.action = "processing"
    /\ blockchain[3].data.action = "collection"
    /\ blockchain[3].data.batch_id = blockchain[1].data.batch_id
    /\ batches[blockchain[3].data.batch_id].processing = <<>>

(***************************************************************************)
(* C10.  The ledger is append-only and its entries immutable: across every *)
(* step the old chain is a prefix of the new one.                          *)
(***************************************************************************)
C10_LedgerAppendOnly == [][IsPrefix(blockchain, blockchain')]_vars

C10_Witness ==
    /\ Len(blockchain) >= 3
    /\ blockchain[2].data.action = "testing"
    /\ blockchain[3].data.action = "processing"

(***************************************************************************)
(* C11.  The views are read-only: a script run that renders the dashboard, *)
(* the journey (with its health score and predicted quality) or the        *)
(* blockchain explorer leaves the ledger, the batch store and the recall   *)
(* set unchanged, and rendering the same view again with the same widget   *)
(* values and no mutation in between shows the same result.                *)
(***************************************************************************)
ViewPages == {"Dashboard", "Journey", "Blockchain Explorer"}

\* The widget values a rendered view was asked with.
ViewInputs(sc) ==
    [k \in DOMAIN sc \cap {"batch_id", "species_filter", "status_filter"} |-> sc[k]]

C11_ViewsReadOnly ==
    [][screen'.page \in ViewPages =>
         /\ UNCHANGED <<blockchain, batches, recalls>>
         /\ (screen.page = screen'.page /\ ViewInputs(screen) = ViewInputs(screen'))
               => screen' = screen]_vars

C11_Witness ==
    /\ screen.page = "Blockchain Explorer"
    /\ "blocks" \in DOMAIN screen
    /\ screen.blocks = blockchain
    /\ Len(blockchain) >= 2
    /\ recalls # {}

(***************************************************************************)
(* C12.  Earliest-recorded entry wins: once a batch has an entry of a      *)
(* measured kind, appending further steps or results, of that kind or any  *)
(* other and with any measurement, leaves that criterion's verdict as it   *)
(* was; so appending never lowers the batch's predicted quality.           *)
(***************************************************************************)
Criteria ==
    {[seq |-> "processing", field |-> "step", kind |-> "drying",
      key |-> "temperature", default |-> 100, limit |-> 40],
     [seq |-> "processing", field |-> "step", kind |-> "grinding",
      key |-> "speed", default |-> 5000, limit |-> 3000],
     [seq |-> "testing", field |-> "test", kind |-> "moisture content",
      key |-> "percentage", default |-> 10000, limit |-> 1200],
     [seq |-> "testing", field |-> "test", kind |-> "microbial load",
      key |-> "cfu", default |-> 100000, limit |-> 500],
     [seq |-> "testing", field |-> "test", kind |-> "heavy metals",
      key |-> "lead_ppm", default |-> 1000, limit |-> 50]}

Verdict(batch, c) ==
    criterion(batch[c.seq], c.field, c.kind, c.key, c.default, c.limit)

HasKind(batch, c) ==
    \E i \in DOMAIN batch[c.seq] : Lower(batch[c.seq][i][c.field]) = c.kind

C12_EarliestWins ==
    [][app = MainApp =>
         \A id \in DOMAIN batches \cap DOMAIN batches' :
            (/\ IsPrefix(batches[id].processing, batches'[id].processing)
             /\ IsPrefix(batches[id].testing, batches'[id].testing))
            => /\ predict_quality(batches'[id]) >= predict_quality(batches[id])
               /\ \A c \in Criteria :
                     HasKind(batches[id], c)
                        => Verdict(batches'[id], c) = Verdict(batches[id], c)]_vars

\* Drying was filed at 40 and then again at 41; the criterion still counts.
C12_Witness ==
    /\ app = MainApp
    /\ \E id \in DOMAIN batches :
          /\ Len(batches[id].processing) = 2
          /\ batches[id].processing[1].step = "Drying"
          /\ batches[id].processing[1].details.temperature = 40
          /\ batches[id].processing[2].step = "Drying"
          /\ batches[id].processing[2].details.temperature = 41
          /\ predict_quality(batches[id]) = 20

(***************************************************************************)
(* C13.  Each mutation touches only its target.  A processing submission   *)
(* for batch b appends one element to b's processing sequence and changes  *)
(* nothing else in the store nor the recall set; a test submission does    *)
(* the same to b's testing sequence; a recall adds b to the recall set and *)
(* leaves every batch record as it was.                                    *)
(***************************************************************************)
C13_TouchesOnlyTarget ==
    [][OneAppend =>
         LET d == LastData
             b == d.batch_id
         IN  /\ d.action = "processing" =>
                  /\ b \in DOMAIN batches
                  /\ \E e \in {batches'[b].processing[Len(batches'[b].processing)]} :
                        /\ e.step = d.step /\ e.details = d.details
                        /\ batches' = [batches EXCEPT ![b].processing = Append(@, e)]
                  /\ recalls' = recalls
             /\ d.action = "testing" =>
                  /\ b \in DOMAIN batches
                  /\ \E e \in {batches'[b].testing[Len(batches'[b].testing)]} :
                        /\ e.test = d.test /\ e.details = d.details
                        /\ batches' = [batches EXCEPT ![b].testing = Append(@, e)]
                  /\ recalls' = recalls
             /\ d.action = "recall" =>
                  /\ batches' = batches
                  /\ recalls' = recalls \cup {b}]_vars

\* Two batches in the store, a step filed on one of them only.
C13_Witness ==
    \E b, other \in DOMAIN batches :
        /\ b # other
        /\ batches[b].processing # <<>>
        /\ batches[other].processing = <<>>
        /\ blockchain[Len(blockchain)].data.action = "processing"

(***************************************************************************)
(* C14.  The ledger mirrors the batch store: for every stored batch the    *)
(* ledger's "processing" entries for its id list, in ledger order, the     *)
(* kinds and details of its processing sequence, likewise "testing", and   *)
(* there are as many "collection" entries as stored batches.               *)
(***************************************************************************)
LedgerEntries(action, batch_id) ==
    SelectSeq(blockchain,
              LAMBDA blk : blk.data.action = action /\ blk.data.batch_id = batch_id)

C14_LedgerMirrorsStore ==
    /\ \A id \in DOMAIN batches :
          LET logged_steps == LedgerEntries("processing", id)
              logged_tests == LedgerEntries("testing", id)
          IN  /\ [i \in DOMAIN logged_steps |->
                     <<logged_steps[i].data.step, logged_steps[i].data.details>>]
                 = [i \in DOMAIN batches[id].processing |->
                     <<batches[id].processing[i].step,
                       batches[id].processing[i].details>>]
              /\ [i \in DOMAIN logged_tests |->
                     <<logged_tests[i].data.test, logged_tests[i].data.details>>]
                 = [i \in DOMAIN batches[id].testing |->
                     <<batches[id].testing[i].test,
                       batches[id].testing[i].details>>]
    /\ Cardinality({k \in DOMAIN blockchain : blockchain[k].data.action = "collection"})
          = Cardinality(DOMAIN batches)

=============================================================================
